---- MODULE Spec2Model ----
(***************************************************************************)
(* Session registry and inbound message router of the three MCP HTTP/SSE   *)
(* server variants of this repository:                                     *)
(*   "auth"     src/src/index.ts            (authenticated, no registry)   *)
(*   "mcp"      src/mcp-server/src/index.ts (registry keyed by Date.now()) *)
(*   "fallback" src/unnamed/part_000        (registry + currentTransport)  *)
(* One behaviour runs one variant; the variant is fixed by Init.           *)
(*                                                                         *)
(* A connection c is one GET /sse request.  The SSEServerTransport that    *)
(* the handler creates for it is identified with c.  Strings that the code *)
(* inspects (the Authorization header, tool names and arguments) are       *)
(* sequences of characters.                                                *)
(*                                                                         *)
(* The tools/call handler, which is the same in the three variants, is a   *)
(* function of its request; ToolSpec applies it to one request.            *)
(***************************************************************************)
EXTENDS Integers, Sequences, FiniteSets, TLC

\* ---------------------------------------------------------------- bounds
MaxConns == 2   \* GET /sse requests that reach the handler in one run

Conns == 1..MaxConns
\* Date.now() and Math.random().toString(36).substring(7) are read once per
\* GET /sse and matter only up to equality (and, for the clock, order), so
\* one new value per connection covers every case
Times == 1..MaxConns
Rands == 1..MaxConns
Variants == {"auth", "mcp", "fallback"}

\* --------------------------------------------------------- authentication
BearerPrefix == <<"B", "e", "a", "r", "e", "r", " ">>
\* process.env.API_KEY || "your-secret-api-key-change-this": one fixed string
API_KEY == <<"k">>
\* Authorization header values a client may send; <<>> is the absent (or
\* empty) header, which `!authHeader` treats alike.
Headers ==
  { <<>>,
    BearerPrefix \o API_KEY,
    BearerPrefix \o <<"x">>,
    <<"B", "e", "a", "r", "e", "r">> \o API_KEY }

StartsWith(s, p) == Len(s) >= Len(p) /\ SubSeq(s, 1, Len(p)) = p
\* String.prototype.substring(n): the characters from index n on
Substring(s, n) == SubSeq(s, n + 1, Len(s))

\* status 0: next() was called, the request goes on to the route handler
authenticate_WrongTokenPasses(authHeader) ==
  IF authHeader = <<>> \/ ~StartsWith(authHeader, BearerPrefix) THEN 401
  ELSE 0

authenticate(authHeader) ==
  IF authHeader = <<>> \/ ~StartsWith(authHeader, BearerPrefix) THEN 401
  ELSE IF Substring(authHeader, 7) # API_KEY THEN 403
  ELSE 0

\* the middleware each variant mounts on the two routes
SseMiddleware(v) == IF v = "auth" THEN <<"authenticate">> ELSE <<>>

MessageMiddleware_NoAuth(v) ==
  IF v = "fallback" THEN <<"express.raw">> ELSE <<>>

MessageMiddleware(v) ==
  IF v = "auth" THEN <<"authenticate">>
  ELSE IF v = "fallback" THEN <<"express.raw">>
  ELSE <<>>

\* the status the middleware chain answers with, 0 when it lets the request
\* through to the handler (cors() and the body parsers pass a well-formed
\* request on)
RunMiddleware(chain, authHeader) ==
  IF \E i \in DOMAIN chain : chain[i] = "authenticate"
  THEN authenticate(authHeader)
  ELSE 0

\* ------------------------------------------------------------- registry
NoTransport == 0      \* currentTransport = null
NoId == <<>>          \* no session identifier
SharedServer == 0     \* the module-level `server` of the auth and mcp variants
NoServer == -1        \* no Server connected yet

HasRegistry(v) == v \in {"mcp", "fallback"}

\* mcp: Date.now().toString(); fallback: `session-${Date.now()}-${random}`
GenSessionId(v, t, r) == IF v = "mcp" THEN <<t>> ELSE <<t, r>>

\* createServer() gives the fallback variant one Server per connection
ServerFor(v, c) == IF v = "fallback" THEN c ELSE SharedServer

\* Map: a set of entries with at most one entry per id
MapSet(m, k, e) == { x \in m : x.id # k } \cup {e}
MapDelete(m, k) == { x \in m : x.id # k }

\* the value stored under the session id
Entry(v, k, c) ==
  IF v = "fallback"
  THEN [id |-> k, transport |-> c, server |-> ServerFor(v, c)]
  ELSE [id |-> k, transport |-> c]

\* ------------------------------------------------- registry operations
\* transports.set(sessionId, ...) of the GET /sse handler
Register(m, v, k, c) == MapSet(m, k, Entry(v, k, c))

\* currentTransport = transport (fallback variant only)
MarkMostRecent(v, cur, c) == IF v = "fallback" THEN c ELSE cur

\* transports.delete(sessionId) of the close listener
Unregister(m, k) == MapDelete(m, k)

\* if (currentTransport === transport) currentTransport = null
ClearMarker(v, cur, c) ==
  IF v = "fallback" /\ cur = c THEN NoTransport ELSE cur

\* the transport POST /message hands the request to; the handler reads only
\* currentTransport, never the posted session identifier nor the Map
PostTarget(v, cur, m, sid) == IF v = "fallback" THEN cur ELSE NoTransport

\* whether the handler of the route, on an error of connect or of
\* handlePostMessage, calls res.status(500).json(...): the fallback variant's
\* catch blocks test res.headersSent, the mcp variant's does not, and the
\* auth variant has no catch block
CatchWrites500(v, route, headersSent) ==
  IF v = "fallback" THEN ~headersSent
  ELSE IF v = "mcp" THEN route = "sse"
  ELSE FALSE

\* the status the POST /message handler writes itself; 0 when the response is
\* left to the transport's handlePostMessage
PostStatus(v, target, threw, headersSent) ==
  IF v \in {"auth", "mcp"} THEN 200
  ELSE IF target = NoTransport THEN 202
  ELSE IF threw /\ CatchWrites500(v, "message", headersSent) THEN 500
  ELSE 0

\* res.setHeader("X-Session-ID", sessionId); the auth variant sets no such
\* header
XSessionId(v, id) == IF HasRegistry(v) THEN id ELSE NoId

\* what the GET /sse handler does, in order, up to its await
SseSteps(v) ==
  IF v = "fallback" THEN <<"set", "mark", "setHeader", "connect">>
  ELSE IF v = "mcp" THEN <<"set", "setHeader", "connect">>
  ELSE <<"connect">>

\* ------------------------------------------------------ tool arguments
MaxLen == 3   \* longest string argument a tool call carries

\* the characters string arguments are made of: two digits, the division
\* sign, a blank, and a lower-case and an upper-case letter
Chars == {"0", "1", "/", " ", "a", "A"}
RECURSIVE StringsOfLen(_)
StringsOfLen(n) ==
  IF n = 0 THEN { <<>> }
  ELSE { Append(s, ch) : s \in StringsOfLen(n - 1), ch \in Chars }
Strings == UNION { StringsOfLen(n) : n \in 0..MaxLen }

\* JSON argument values: an absent property, a string, a number, a boolean
Undefined == [type |-> "undefined", s |-> <<>>, n |-> 0, b |-> FALSE]
Str(s) == [type |-> "string", s |-> s, n |-> 0, b |-> FALSE]
Num(n) == [type |-> "number", s |-> <<>>, n |-> n, b |-> FALSE]
Bool(b) == [type |-> "boolean", s |-> <<>>, n |-> 0, b |-> b]

\* JavaScript truthiness, as `!x` and `x ? a : b` read it
Truthy(x) ==
  IF x.type = "string" THEN x.s # <<>>
  ELSE IF x.type = "number" THEN x.n # 0
  ELSE IF x.type = "boolean" THEN x.b
  ELSE FALSE

LowerCase ==
  <<"a", "b", "c", "d", "e", "f", "g", "h", "i", "j", "k", "l", "m", "n",
    "o", "p", "q", "r", "s", "t", "u", "v", "w", "x", "y", "z">>
UpperCase ==
  <<"A", "B", "C", "D", "E", "F", "G", "H", "I", "J", "K", "L", "M", "N",
    "O", "P", "Q", "R", "S", "T", "U", "V", "W", "X", "Y", "Z">>
DigitChars == <<"0", "1", "2", "3", "4", "5", "6", "7", "8", "9">>

\* String.prototype.toUpperCase
ToUpperCase(s) ==
  [i \in 1..Len(s) |->
     IF \E k \in 1..26 : LowerCase[k] = s[i]
     THEN UpperCase[CHOOSE k \in 1..26 : LowerCase[k] = s[i]]
     ELSE s[i]]

IsDigit(ch) == \E k \in 1..10 : DigitChars[k] = ch
DigitValue(ch) == (CHOOSE k \in 1..10 : DigitChars[k] = ch) - 1

\* the decimal digits of a natural number
RECURSIVE Digits(_)
Digits(n) ==
  IF n < 10 THEN << DigitChars[n + 1] >>
  ELSE Append(Digits(n \div 10), DigitChars[(n % 10) + 1])

\* the value of a run of decimal digits
RECURSIVE DecimalValue(_)
DecimalValue(s) ==
  IF s = <<>> THEN 0
  ELSE 10 * DecimalValue(SubSeq(s, 1, Len(s) - 1)) + DigitValue(s[Len(s)])

\* --------------------------------------------------------- eval(string)
\* JavaScript's eval on strings of digits, "/" and blanks (strict code: the
\* file is an ES module).  A value is a finite non-negative number n/d,
\* Infinity, NaN, undefined or a RegExp object.
Finite(n, d) == [kind |-> "number", n |-> n, d |-> d, source |-> <<>>]
Infinity == [kind |-> "Infinity", n |-> 0, d |-> 0, source |-> <<>>]
NaN == [kind |-> "NaN", n |-> 0, d |-> 0, source |-> <<>>]
UndefinedValue == [kind |-> "undefined", n |-> 0, d |-> 0, source |-> <<>>]
RegExpValue(src) == [kind |-> "regexp", n |-> 0, d |-> 0, source |-> src]

\* the `/` operator; a RegExp operand converts to NaN
Divide(a, b) ==
  IF a.kind \in {"NaN", "regexp", "undefined"}
       \/ b.kind \in {"NaN", "regexp", "undefined"} THEN NaN
  ELSE IF a.kind = "Infinity"
       THEN IF b.kind = "Infinity" THEN NaN ELSE Infinity
  ELSE IF b.kind = "Infinity" THEN Finite(0, 1)
  ELSE IF b.n = 0 THEN IF a.n = 0 THEN NaN ELSE Infinity
  ELSE Finite(a.n * b.d, a.d * b.n)

\* white space and comments before a token: the index of the next token, or
\* Len(s) + 1; "//" starts a comment that runs to the end of the line
RECURSIVE SkipTrivia(_, _)
SkipTrivia(s, i) ==
  IF i > Len(s) THEN i
  ELSE IF s[i] = " " THEN SkipTrivia(s, i + 1)
  ELSE IF s[i] = "/" /\ i < Len(s) /\ s[i + 1] = "/" THEN Len(s) + 1
  ELSE i

\* the index after the run of characters from i on that satisfy IsDigit
RECURSIVE DigitsEnd(_, _)
DigitsEnd(s, i) ==
  IF i <= Len(s) /\ IsDigit(s[i]) THEN DigitsEnd(s, i + 1) ELSE i

\* the index of the first "/" at or after i, or Len(s) + 1
RECURSIVE SlashAt(_, _)
SlashAt(s, i) ==
  IF i > Len(s) \/ s[i] = "/" THEN i ELSE SlashAt(s, i + 1)

SyntaxError == [ok |-> FALSE, val |-> UndefinedValue, next |-> 0]

\* one operand starting at token index i: a numeric literal (a leading zero
\* before another digit is an error in strict code) or a regular expression
\* literal /body/ (digits right after it would be flags, none of them valid)
ParseOperand(s, i) ==
  IF i > Len(s) THEN SyntaxError
  ELSE IF IsDigit(s[i])
  THEN LET j == DigitsEnd(s, i) IN
       IF j - i > 1 /\ s[i] = "0" THEN SyntaxError
       ELSE [ok |-> TRUE, val |-> Finite(DecimalValue(SubSeq(s, i, j - 1)), 1),
             next |-> j]
  ELSE IF s[i] = "/"
  THEN LET k == SlashAt(s, i + 1) IN
       IF k > Len(s) \/ DigitsEnd(s, k + 1) > k + 1 THEN SyntaxError
       ELSE [ok |-> TRUE, val |-> RegExpValue(SubSeq(s, i, k)), next |-> k + 1]
  ELSE SyntaxError

\* the rest of a division chain whose value so far is acc
RECURSIVE ParseRest(_, _, _)
ParseRest(s, acc, i) ==
  LET j == SkipTrivia(s, i) IN
  IF j > Len(s) THEN [ok |-> TRUE, val |-> acc, next |-> j]
  ELSE IF s[j] # "/" THEN SyntaxError
  ELSE LET o == ParseOperand(s, SkipTrivia(s, j + 1)) IN
       IF ~o.ok THEN SyntaxError
       ELSE ParseRest(s, Divide(acc, o.val), o.next)

\* eval(s): the completion value, or a thrown SyntaxError; a program with no
\* statement evaluates to undefined
Eval(s) ==
  LET i == SkipTrivia(s, 1) IN
  IF i > Len(s) THEN [ok |-> TRUE, val |-> UndefinedValue, next |-> i]
  ELSE LET o == ParseOperand(s, i) IN
       IF ~o.ok THEN SyntaxError ELSE ParseRest(s, o.val, o.next)

TxtInfinity == <<"I", "n", "f", "i", "n", "i", "t", "y">>
TxtNaN == <<"N", "a", "N">>
TxtUndefined == <<"u", "n", "d", "e", "f", "i", "n", "e", "d">>

\* `${result}`: an integral number prints its digits, a RegExp its source; the
\* decimal expansion of a fractional quotient is not worked out and the
\* quotient is printed as numerator, "/" and denominator
ValueToString(x) ==
  IF x.kind = "Infinity" THEN TxtInfinity
  ELSE IF x.kind = "NaN" THEN TxtNaN
  ELSE IF x.kind = "undefined" THEN TxtUndefined
  ELSE IF x.kind = "regexp" THEN x.source
  ELSE IF x.n % x.d = 0 THEN Digits(x.n \div x.d)
  ELSE Digits(x.n) \o <<"/">> \o Digits(x.d)

\* ------------------------------------------------------------ the tools
ToolGetCurrentTime ==
  <<"g", "e", "t", "_", "c", "u", "r", "r", "e", "n", "t", "_", "t", "i",
    "m", "e">>
ToolCalculate == <<"c", "a", "l", "c", "u", "l", "a", "t", "e">>
ToolEcho == <<"e", "c", "h", "o">>

ErrorPrefix == <<"E", "r", "r", "o", "r", ":", " ">>
MsgExpressionRequired ==
  <<"E", "x", "p", "r", "e", "s", "s", "i", "o", "n", " ", "i", "s", " ",
    "r", "e", "q", "u", "i", "r", "e", "d">>
MsgInvalidCharacters ==
  <<"I", "n", "v", "a", "l", "i", "d", " ", "c", "h", "a", "r", "a", "c",
    "t", "e", "r", "s", " ", "i", "n", " ", "e", "x", "p", "r", "e", "s",
    "s", "i", "o", "n">>
MsgMessageRequired ==
  <<"M", "e", "s", "s", "a", "g", "e", " ", "i", "s", " ", "r", "e", "q",
    "u", "i", "r", "e", "d">>
MsgUnknownTool ==
  <<"U", "n", "k", "n", "o", "w", "n", " ", "t", "o", "o", "l", ":", " ">>
\* what the runtime's own errors say: a TypeError for a method call on a value
\* that has no such method, a RangeError of Intl, a SyntaxError of eval
MsgNotAFunction ==
  <<" ", "i", "s", " ", "n", "o", "t", " ", "a", " ", "f", "u", "n", "c",
    "t", "i", "o", "n">>
MsgInvalidTimeZone ==
  <<"I", "n", "v", "a", "l", "i", "d", " ", "t", "i", "m", "e", " ", "z",
    "o", "n", "e", " ", "s", "p", "e", "c", "i", "f", "i", "e", "d", ":",
    " ">>
MsgSyntaxError ==
  <<"I", "n", "v", "a", "l", "i", "d", " ", "o", "r", " ", "u", "n", "e",
    "x", "p", "e", "c", "t", "e", "d", " ", "t", "o", "k", "e", "n">>

\* what a tool body hands back: the text of its result, or the message of
\* the Error it threw; evalCalls lists the strings it passed to eval
Return(text, calls) == [threw |-> FALSE, text |-> text, evalCalls |-> calls]
Throw(message, calls) ==
  [threw |-> TRUE, text |-> Str(message), evalCalls |-> calls]

\* time zone names Intl accepts, and the formatted reading of the clock
TimeZones == { <<"U", "T", "C">> }
TimeString == <<"1", "2", ":", "0", "0">>

\* case "get_current_time"
GetCurrentTime(args) ==
  LET timezone == args.timezone IN
  IF Truthy(timezone) /\ timezone.s \notin TimeZones
  THEN Throw(MsgInvalidTimeZone \o timezone.s, <<>>)
  ELSE Return(Str(<<"C", "u", "r", "r", "e", "n", "t", " ", "t", "i", "m", "e">>
                  \o (IF Truthy(timezone)
                      THEN <<" ", "i", "n", " ">> \o timezone.s ELSE <<>>)
                  \o <<":", " ">> \o TimeString), <<>>)

\* the characters the pattern /[^0-9+\-*/().\s]/g leaves in place
AllowedChars ==
  { DigitChars[k] : k \in 1..10 } \cup {"+", "-", "*", "/", "(", ")", ".", " "}
\* expression.replace(/[^0-9+\-*/().\s]/g, "")
Sanitize(expression) == SelectSeq(expression, LAMBDA ch : ch \in AllowedChars)

Calculate_EvaluatesStripped(args) ==
  LET expression == args.expression IN
  IF ~Truthy(expression) THEN Throw(MsgExpressionRequired, <<>>)
  ELSE IF expression.type # "string" THEN Throw(MsgNotAFunction, <<>>)
  ELSE LET sanitized == Sanitize(expression.s)
           r == Eval(sanitized) IN
       IF ~r.ok THEN Throw(MsgSyntaxError, << sanitized >>)
       ELSE Return(Str(expression.s \o <<" ", "=", " ">>
                         \o ValueToString(r.val)), << sanitized >>)

\* case "calculate"
Calculate(args) ==
  LET expression == args.expression IN
  IF ~Truthy(expression) THEN Throw(MsgExpressionRequired, <<>>)
  ELSE IF expression.type # "string"
  THEN Throw(<<"e", "x", "p", "r", "e", "s", "s", "i", "o", "n", ".", "r",
               "e", "p", "l", "a", "c", "e">> \o MsgNotAFunction, <<>>)
  ELSE LET sanitized == Sanitize(expression.s) IN
       IF sanitized # expression.s THEN Throw(MsgInvalidCharacters, <<>>)
       ELSE LET r == Eval(sanitized) IN
            IF ~r.ok THEN Throw(MsgSyntaxError, << sanitized >>)
            ELSE Return(Str(expression.s \o <<" ", "=", " ">>
                              \o ValueToString(r.val)), << sanitized >>)

\* case "echo"; a message that is not a string is handed back as it is
Echo(args) ==
  LET message == args.message
      uppercase == args.uppercase IN
  IF ~Truthy(message) THEN Throw(MsgMessageRequired, <<>>)
  ELSE IF ~Truthy(uppercase) THEN Return(message, <<>>)
  ELSE IF message.type # "string"
  THEN Throw(<<"m", "e", "s", "s", "a", "g", "e", ".", "t", "o", "U", "p",
               "p", "e", "r", "C", "a", "s", "e">> \o MsgNotAFunction, <<>>)
  ELSE Return(Str(ToUpperCase(message.s)), <<>>)

\* the switch on the tool name, inside the try block
ToolBody(name, args) ==
  IF name = ToolGetCurrentTime THEN GetCurrentTime(args)
  ELSE IF name = ToolCalculate THEN Calculate(args)
  ELSE IF name = ToolEcho THEN Echo(args)
  ELSE Throw(MsgUnknownTool \o name, <<>>)

CallToolRequestHandler_RethrowsUnknown(name, args) ==
  LET o == ToolBody(name, args) IN
  IF o.threw /\ name \notin {ToolGetCurrentTime, ToolCalculate, ToolEcho}
  THEN [kind |-> "exception", isError |-> TRUE, text |-> o.text]
  ELSE [kind |-> "result", isError |-> o.threw,
        text |-> IF o.threw THEN Str(ErrorPrefix \o o.text.s) ELSE o.text]

\* the CallToolRequestSchema handler: try { switch } catch { isError result }
CallToolRequestHandler(name, args) ==
  LET o == ToolBody(name, args) IN
  [kind |-> "result", isError |-> o.threw,
   text |-> IF o.threw THEN Str(ErrorPrefix \o o.text.s) ELSE o.text]

\* the requests a client may send
NoArgs ==
  [timezone |-> Undefined, expression |-> Undefined, message |-> Undefined,
   uppercase |-> Undefined]
ArgValues == {Undefined, Num(0), Num(5)} \cup { Str(s) : s \in Strings }
TimeZoneArgs == {Undefined} \cup { Str(s) : s \in TimeZones \cup {<<>>, <<"a">>} }
ToolNames == {ToolGetCurrentTime, ToolCalculate, ToolEcho, <<"a">>}
Requests ==
  { [name |-> ToolGetCurrentTime, args |-> [NoArgs EXCEPT !.timezone = z]] :
      z \in TimeZoneArgs }
  \cup { [name |-> ToolCalculate, args |-> [NoArgs EXCEPT !.expression = e]] :
           e \in ArgValues }
  \cup { [name |-> ToolEcho,
          args |-> [NoArgs EXCEPT !.message = x[1], !.uppercase = x[2]]] :
           x \in ArgValues \X {Undefined, Bool(TRUE), Bool(FALSE)} }
  \cup { [name |-> n, args |-> NoArgs] : n \in ToolNames }
NoRequest == [name |-> <<>>, args |-> NoArgs]
NoResult == [kind |-> "none", isError |-> FALSE, text |-> Undefined]

VARIABLES
  variant,           \* which server variant runs
  now,               \* the latest value Date.now() returned (0: none yet)
  pc,                \* position of each GET /sse handler
  connClosed,        \* the underlying connection of the request has closed
  sessionId,         \* the handler's `sessionId` constant
  serverOf,          \* the Server the handler connected its transport to
  transports,        \* the `transports` Map
  currentTransport,  \* the `currentTransport` marker (fallback variant)
  lastReq,           \* the request answered in the latest step, if any
  lastError,         \* the handler error dealt with in the latest step, if any
  toolRequest,       \* the tools/call request at hand
  toolResult,        \* what its handler returned
  evalCalls          \* the strings the handler passed to eval

toolVars == << toolRequest, toolResult, evalCalls >>
vars == << variant, now, pc, connClosed, sessionId, serverOf,
           transports, currentTransport, lastReq, lastError, toolVars >>

\* connections are numbered in the order their requests arrive
Started(c) == pc[c] # "idle"

\* Math.random() values matter only up to equality: a value not drawn before
\* is the least one
UsedRands == { sessionId[c][2] : c \in { d \in Conns : Len(sessionId[d]) = 2 } }
DrawableRands == { r \in Rands : \A q \in Rands : q < r => q \in UsedRands }

NoReq ==
  [route |-> "none", header |-> <<>>, sid |-> NoId, status |-> 0,
   ran |-> FALSE, target |-> NoTransport, otherRoute |-> "none",
   issued |-> NoId, steps |-> <<>>]

NoError ==
  [route |-> "none", conn |-> NoTransport, headersSent |-> FALSE,
   wrote500 |-> FALSE]

\* how the request answered in the step before fared, when it was on the
\* other route and carried the same Authorization header as this one
OtherRoute(route, h) ==
  IF lastReq.route \notin {"none", route} /\ lastReq.header = h
  THEN IF lastReq.ran THEN "let through" ELSE "rejected"
  ELSE "none"

\* the module's state once it is loaded and listening
Loaded ==
  /\ variant \in Variants
  /\ now = 0
  /\ pc = [c \in Conns |-> "idle"]
  /\ connClosed = [c \in Conns |-> FALSE]
  /\ sessionId = [c \in Conns |-> NoId]
  /\ serverOf = [c \in Conns |-> NoServer]
  /\ transports = {}
  /\ currentTransport = NoTransport
  /\ lastReq = NoReq
  /\ lastError = NoError

Init ==
  /\ Loaded
  /\ toolRequest = NoRequest
  /\ toolResult = NoResult
  /\ evalCalls = <<>>

\* GET /sse answered by the middleware: the route handler does not run
SseDenied(h) ==
  /\ RunMiddleware(SseMiddleware(variant), h) # 0
  /\ lastReq' = [route |-> "sse", header |-> h, sid |-> NoId,
                 status |-> RunMiddleware(SseMiddleware(variant), h),
                 ran |-> FALSE, target |-> NoTransport,
                 otherRoute |-> OtherRoute("sse", h),
                 issued |-> NoId, steps |-> <<>>]
  /\ lastError' = NoError
  /\ UNCHANGED << variant, now, pc, connClosed, sessionId, serverOf,
                  transports, currentTransport, toolVars >>

\* GET /sse handler, from its start to `await server.connect(transport)`;
\* t is what Date.now() returns (the millisecond of the previous call or a
\* later one, which matters only as being later) and r what Math.random()
\* yields
SseOpen(c, h, t, r) ==
  /\ pc[c] = "idle"
  /\ \A d \in Conns : d < c => pc[d] # "idle"
  /\ RunMiddleware(SseMiddleware(variant), h) = 0
  /\ pc' = [pc EXCEPT ![c] = "connecting"]
  /\ serverOf' = [serverOf EXCEPT ![c] = ServerFor(variant, c)]
  /\ lastReq' = [route |-> "sse", header |-> h, sid |-> NoId, status |-> 0,
                 ran |-> TRUE, target |-> NoTransport,
                 otherRoute |-> OtherRoute("sse", h),
                 issued |-> XSessionId(variant, GenSessionId(variant, t, r)),
                 steps |-> SseSteps(variant)]
  /\ lastError' = NoError
  /\ IF HasRegistry(variant)
     THEN LET id == GenSessionId(variant, t, r) IN
          /\ t \in {now, now + 1} \ {0}
          /\ r \in DrawableRands
          /\ now' = t
          /\ sessionId' = [sessionId EXCEPT ![c] = id]
          /\ transports' = Register(transports, variant, id, c)
          /\ currentTransport' = MarkMostRecent(variant, currentTransport, c)
     ELSE UNCHANGED << now, sessionId, transports, currentTransport >>
  /\ UNCHANGED << variant, connClosed, toolVars >>

\* server.connect(transport) resolves: the handler installs its listeners
\* (req.on("close") in the variants that keep a registry) and returns
ConnectResolve(c) ==
  /\ pc[c] = "connecting"
  /\ pc' = [pc EXCEPT ![c] = "open"]
  /\ lastReq' = NoReq
  /\ lastError' = NoError
  /\ UNCHANGED << variant, now, connClosed, sessionId, serverOf,
                  transports, currentTransport, toolVars >>

\* server.connect(transport) rejects, before or after the transport's start
\* has sent the response headers: the catch block logs and answers; no
\* listener is installed and the registry is left as it is
ConnectReject(c, headersSent) ==
  /\ pc[c] = "connecting"
  /\ pc' = [pc EXCEPT ![c] = "failed"]
  /\ lastReq' = NoReq
  /\ lastError' = [route |-> "sse", conn |-> c, headersSent |-> headersSent,
                   wrote500 |-> CatchWrites500(variant, "sse", headersSent)]
  /\ UNCHANGED << variant, now, connClosed, sessionId, serverOf,
                  transports, currentTransport, toolVars >>

\* req has a "close" listener only once the handler has passed the await
CloseListener(v, c) == HasRegistry(v) /\ pc[c] = "open"

\* the underlying connection closes; "close" is emitted once, and the
\* listener, when installed, runs within the emit
Close(c) ==
  /\ Started(c)
  /\ ~connClosed[c]
  /\ connClosed' = [connClosed EXCEPT ![c] = TRUE]
  /\ IF CloseListener(variant, c)
     THEN /\ transports' = Unregister(transports, sessionId[c])
          /\ currentTransport' = ClearMarker(variant, currentTransport, c)
     ELSE UNCHANGED << transports, currentTransport >>
  /\ lastReq' = NoReq
  /\ lastError' = NoError
  /\ UNCHANGED << variant, now, pc, sessionId, serverOf, toolVars >>

\* session identifiers a client can correlate a POST with: none, or one that a
\* GET /sse issued in X-Session-ID
KnownIds == {NoId} \cup { sessionId[c] : c \in Conns }

\* POST /message answered by the middleware.  (A POST answered directly after
\* another POST reads the same state and replaces its log entry: it is left
\* out, as it reaches nothing the later POST alone does not.)
PostDenied(h, sid) ==
  /\ lastReq.route # "message"
  /\ RunMiddleware(MessageMiddleware(variant), h) # 0
  /\ lastReq' = [route |-> "message", header |-> h, sid |-> sid,
                 status |-> RunMiddleware(MessageMiddleware(variant), h),
                 ran |-> FALSE, target |-> NoTransport,
                 otherRoute |-> OtherRoute("message", h),
                 issued |-> NoId, steps |-> <<>>]
  /\ lastError' = NoError
  /\ UNCHANGED << variant, now, pc, connClosed, sessionId, serverOf,
                  transports, currentTransport, toolVars >>

\* POST /message handler; `threw` is whether handlePostMessage, when it is
\* called, threw, and `headersSent` whether it had sent the response headers
\* by then
PostMessage(h, sid, threw, headersSent) ==
  /\ lastReq.route # "message"
  /\ RunMiddleware(MessageMiddleware(variant), h) = 0
  /\ threw => PostTarget(variant, currentTransport, transports, sid) # NoTransport
  /\ headersSent => threw
  /\ LET target == PostTarget(variant, currentTransport, transports, sid) IN
     /\ lastReq' = [route |-> "message", header |-> h, sid |-> sid,
                    status |-> PostStatus(variant, target, threw, headersSent),
                    ran |-> TRUE, target |-> target,
                    otherRoute |-> OtherRoute("message", h),
                    issued |-> NoId, steps |-> <<>>]
     /\ lastError' =
          IF threw
          THEN [route |-> "message", conn |-> target,
                headersSent |-> headersSent,
                wrote500 |-> CatchWrites500(variant, "message", headersSent)]
          ELSE NoError
  /\ UNCHANGED << variant, now, pc, connClosed, sessionId, serverOf,
                  transports, currentTransport, toolVars >>

Next ==
  \/ \E h \in Headers : SseDenied(h)
  \/ \E c \in Conns, h \in Headers, t \in Times, r \in Rands :
       SseOpen(c, h, t, r)
  \/ \E c \in Conns : ConnectResolve(c)
  \/ \E c \in Conns, headersSent \in BOOLEAN : ConnectReject(c, headersSent)
  \/ \E c \in Conns : Close(c)
  \/ \E h \in Headers, sid \in KnownIds : PostDenied(h, sid)
  \/ \E h \in Headers, sid \in KnownIds, threw \in BOOLEAN,
        headersSent \in BOOLEAN :
       PostMessage(h, sid, threw, headersSent)

Spec == Init /\ [][Next]_vars

\* ------------------------------------------------------------ tool calls
\* a client has sent one tools/call request
ToolInit ==
  /\ Loaded
  /\ toolRequest \in Requests
  /\ toolResult = NoResult
  /\ evalCalls = <<>>

\* the CallToolRequestSchema handler runs on the request
CallToolRequest ==
  /\ toolResult = NoResult
  /\ toolResult' = CallToolRequestHandler(toolRequest.name, toolRequest.args)
  /\ evalCalls' = ToolBody(toolRequest.name, toolRequest.args).evalCalls
  /\ UNCHANGED << variant, now, pc, connClosed, sessionId, serverOf,
                  transports, currentTransport, lastReq, lastError,
                  toolRequest >>

ToolNext == CallToolRequest

ToolSpec == ToolInit /\ [][ToolNext]_vars

\* ------------------------------------------------------------ the claims
\* the registry's lookup(id) -> transport | absent
MapHas(m, k) == \E e \in m : e.id = k
Lookup(m, k) ==
  IF MapHas(m, k) THEN (CHOOSE e \in m : e.id = k).transport ELSE NoTransport
\* session c has an entry in the registry
Registered(c) == \E e \in transports : e.transport = c
\* session c was opened and its connection has not closed
IsOpen(c) == pc[c] \in {"connecting", "open"} /\ ~connClosed[c]
\* the transport of the most recently opened session that is still open
LatestOpen ==
  IF \E c \in Conns : IsOpen(c)
  THEN CHOOSE c \in Conns : IsOpen(c) /\ \A d \in Conns : IsOpen(d) => d <= c
  ELSE NoTransport
PostAnswered == lastReq.route = "message" /\ lastReq.ran
CorrectHeader == BearerPrefix \o API_KEY
\* the header is present and begins with the seven characters "Bearer "
IsBearer(h) == Len(h) >= 7 /\ \A i \in 1..7 : h[i] = BearerPrefix[i]
BearerToken(h) == [i \in 1..(Len(h) - 7) |-> h[i + 7]]
\* what a rejected request must leave alone
SessionState ==
  << pc, connClosed, sessionId, serverOf, transports, currentTransport >>

\* C1: a POST /message that carries the session identifier of a registered
\* session is delivered to that session's transport and to no other.
C1_DeliveredToCorrelatedSession ==
  (variant = "fallback" /\ PostAnswered /\ MapHas(transports, lastReq.sid))
    => lastReq.target = Lookup(transports, lastReq.sid)

\* C2: in the fallback variant a POST /message without a usable session
\* identifier, answered while at least one session is still open, is
\* forwarded to the transport of the latest-opened session.
C2_FallbackDeliversToLatestOpen ==
  (variant = "fallback" /\ PostAnswered /\ ~MapHas(transports, lastReq.sid)
     /\ \E c \in Conns : IsOpen(c))
    => lastReq.target = LatestOpen

\* C3: while zero sessions are registered, POST /message is answered 202 and
\* no transport is invoked.
C3_NoSessionAccepted202 ==
  (HasRegistry(variant) /\ PostAnswered /\ transports = {})
    => (lastReq.status = 202 /\ lastReq.target = NoTransport)

\* C4: the registry holds at most one entry per sessionId, and no two
\* connections ever obtain the same sessionId.
C4_SessionIdsUnique ==
  /\ \A e1, e2 \in transports : e1.id = e2.id => e1 = e2
  /\ \A c, d \in Conns :
       (c # d /\ sessionId[c] # NoId /\ sessionId[d] # NoId)
         => sessionId[c] # sessionId[d]

\* C5: a session whose connection has closed is removed from the registry,
\* wherever in the /sse handler the close happened: once the handler has
\* finished and the connection is closed, the session has no entry.
C5_ClosedSessionRemoved ==
  \A c \in Conns :
    (HasRegistry(variant) /\ connClosed[c] /\ pc[c] \in {"open", "failed"})
      => ~Registered(c)

\* C6: the close of one session removes that session's entry and leaves
\* every other session's entry as it was.
C6_CloseRemovesOnlyOwnEntry ==
  [][ \A c \in Conns :
        (~connClosed[c] /\ connClosed'[c] /\ CloseListener(variant, c))
          => transports' = { e \in transports : e.transport # c } ]_vars

\* C7: the close cleanup run for an id that is absent from the registry
\* leaves the registry and the most-recent-transport marker unchanged.
C7_UnregisterAbsentIsNoOp ==
  [][ \A c \in Conns :
        (~connClosed[c] /\ connClosed'[c] /\ CloseListener(variant, c)
           /\ ~MapHas(transports, sessionId[c]))
          => (transports' = transports
              /\ currentTransport' = currentTransport) ]_vars

\* C8: in the authenticated variant a request to /sse or /message without an
\* Authorization header, or with one that does not start with "Bearer ", is
\* answered 401, and one whose Bearer token differs from API_KEY is answered
\* 403; in both cases the handler does not run and session state is unchanged.
C8_AuthRejectsWithoutTouchingState ==
  [][ (variant = "auth" /\ lastReq'.route # "none" /\ lastReq' # lastReq)
        => LET h == lastReq'.header IN
           /\ ~IsBearer(h)
                => (lastReq'.status = 401 /\ ~lastReq'.ran
                    /\ UNCHANGED SessionState)
           /\ (IsBearer(h) /\ BearerToken(h) # API_KEY)
                => (lastReq'.status = 403 /\ ~lastReq'.ran
                    /\ UNCHANGED SessionState) ]_vars

\* C8 witness: with a session open, a GET /sse carrying a wrong Bearer token
\* has been answered 403.
C8_Witness ==
  /\ variant = "auth"
  /\ lastReq.route = "sse"
  /\ lastReq.status = 403
  /\ \E c \in Conns : pc[c] = "open"

\* C9: in the mcp-server variant a session is registered and connected only
\* for a GET /sse that carries the correct bearer token.
C9_McpSessionNeedsToken ==
  (variant = "mcp" /\ lastReq.route = "sse" /\ lastReq.ran)
    => lastReq.header = CorrectHeader

\* C10: in each variant, credentials are let through to the /message handler
\* if and only if the same credentials are let through to the /sse handler.
C10_SamePolicyOnBothRoutes ==
  lastReq.otherRoute # "none"
    => (lastReq.ran <=> lastReq.otherRoute = "let through")

\* C10 witness: in the authenticated variant, a POST /message has been
\* rejected right after a GET /sse with the same credentials was rejected.
C10_Witness ==
  /\ variant = "auth"
  /\ lastReq.route = "message"
  /\ ~lastReq.ran
  /\ lastReq.otherRoute = "rejected"

\* ------------------------------------------------- the claims on tools
ToolReturned == toolResult # NoResult
Called(name) == ToolReturned /\ toolRequest.name = name
\* digits, + - * / ( ) . and white space
ArithmeticChars ==
  {"0", "1", "2", "3", "4", "5", "6", "7", "8", "9",
   "+", "-", "*", "/", "(", ")", ".", " "}
OnlyArithmeticChars(s) == \A i \in DOMAIN s : s[i] \in ArithmeticChars

\* C11: for every tool name and every argument value the call-tool handler
\* returns a structured result and propagates no exception; a failure inside
\* a tool body (missing argument, invalid time zone, evaluator fault, unknown
\* tool) comes back as isError with the text "Error: <message>".
C11_ToolFailuresReturnedAsErrors ==
  ToolReturned =>
    LET name == toolRequest.name
        args == toolRequest.args
        o == ToolBody(name, args)
        failed ==
          \/ name \notin {ToolGetCurrentTime, ToolCalculate, ToolEcho}
          \/ name = ToolCalculate /\ args.expression = Undefined
          \/ name = ToolEcho /\ args.message = Undefined
          \/ name = ToolGetCurrentTime /\ args.timezone = Str(<<"a">>)
          \/ o.threw
    IN /\ toolResult.kind = "result"
       /\ failed =>
            /\ toolResult.isError
            /\ toolResult.text.type = "string"
            /\ SubSeq(toolResult.text.s, 1, 7) = ErrorPrefix
            /\ Len(toolResult.text.s) > 7
            /\ o.threw /\ toolResult.text.s = ErrorPrefix \o o.text.s

\* C11 witness: a call of a tool that does not exist has come back as the
\* error result "Error: Unknown tool: a".
C11_Witness ==
  /\ Called(<<"a">>)
  /\ toolResult.isError
  /\ toolResult.text = Str(ErrorPrefix \o MsgUnknownTool \o <<"a">>)

\* C12: calculate rejects every expression that holds a character outside
\* digits, + - * / ( ) . and white space, without calling the evaluator; the
\* evaluator is only ever called on the caller's own string, which is then
\* made of allowed characters alone.
C12_EvaluatorSeesOnlyAllowedInput ==
  Called(ToolCalculate) =>
    LET expression == toolRequest.args.expression IN
    /\ (expression.type = "string" /\ ~OnlyArithmeticChars(expression.s))
         => (toolResult.isError /\ evalCalls = <<>>)
    /\ \A i \in DOMAIN evalCalls :
         /\ expression.type = "string"
         /\ evalCalls[i] = expression.s
         /\ OnlyArithmeticChars(evalCalls[i])

\* C12 witness: calculate has rejected "1a", which stripping would have
\* turned into the valid expression "1".
C12_Witness ==
  /\ Called(ToolCalculate)
  /\ toolRequest.args.expression = Str(<<"1", "a">>)
  /\ toolResult.isError
  /\ evalCalls = <<>>

\* the numbers and signs of an expression, blanks dropped
RECURSIVE Tokenize(_)
Tokenize(s) ==
  IF s = <<>> THEN <<>>
  ELSE IF s[1] = " " THEN Tokenize(Tail(s))
  ELSE IF IsDigit(s[1])
  THEN LET j == DigitsEnd(s, 1) IN
       << SubSeq(s, 1, j - 1) >> \o Tokenize(SubSeq(s, j, Len(s)))
  ELSE << << s[1] >> >> \o Tokenize(Tail(s))
IsNumber(t) == IsDigit(t[1])
\* numbers joined by division signs
WellFormed(s) ==
  LET ts == Tokenize(s) IN
  /\ Len(ts) % 2 = 1
  /\ \A i \in DOMAIN ts :
       IF i % 2 = 1 THEN IsNumber(ts[i]) ELSE ts[i] = <<"/">>
DividesByZero(s) ==
  LET ts == Tokenize(s) IN
  \E i \in DOMAIN ts :
    i > 1 /\ ts[i - 1] = <<"/">> /\ IsNumber(ts[i]) /\ DecimalValue(ts[i]) = 0

\* C13: calculate fails with an error result for every division by zero and
\* for every malformed expression built from allowed characters; it never
\* returns a successful result for such input.
C13_BadExpressionIsAnError ==
  Called(ToolCalculate) =>
    LET expression == toolRequest.args.expression IN
    (expression.type = "string" /\ OnlyArithmeticChars(expression.s)
       /\ (~WellFormed(expression.s) \/ DividesByZero(expression.s)))
      => toolResult.isError

\* C14: for every string message, echo returns the message unchanged when
\* uppercase is false or absent and the uppercased message when uppercase is
\* true, as a non-error result.
C14_EchoReturnsMessage ==
  Called(ToolEcho) =>
    LET message == toolRequest.args.message
        uppercase == toolRequest.args.uppercase IN
    message.type = "string"
      => /\ ~toolResult.isError
         /\ toolResult.text =
              IF uppercase = Bool(TRUE) THEN Str(ToUpperCase(message.s))
              ELSE message

\* ------------------------------------------ the claims on error handling
\* the connection whose GET /sse handler ran in the latest step
JustOpened ==
  CHOOSE c \in Conns : Started(c) /\ \A d \in Conns : Started(d) => d <= c
\* the place of a step in the handler's sequence of steps, 0 when absent
StepAt(steps, name) ==
  IF \E i \in DOMAIN steps : steps[i] = name
  THEN CHOOSE i \in DOMAIN steps : steps[i] = name
  ELSE 0

\* C15: every GET /sse that opens a stream issues an X-Session-ID response
\* header whose value is the key under which that session's transport is
\* registered, and sets it before server.connect is invoked.
C15_SessionIdHeaderIsRegistryKey ==
  (lastReq.route = "sse" /\ lastReq.ran)
    => /\ lastReq.issued # NoId
       /\ Lookup(transports, lastReq.issued) = JustOpened
       /\ StepAt(lastReq.steps, "setHeader") > 0
       /\ StepAt(lastReq.steps, "setHeader") < StepAt(lastReq.steps, "connect")

\* C16: when server.connect rejects, the session is removed: once the error
\* is handled the registry has no entry for it and the most-recent marker
\* does not refer to its transport.
C16_FailedConnectRemovesSession ==
  \A c \in Conns :
    (HasRegistry(variant) /\ pc[c] = "failed")
      => (~Registered(c) /\ currentTransport # c)

\* C17: on an error in the /sse or /message handler a 500 response is written
\* if and only if the response headers have not been sent yet; once they are
\* sent the handler writes no status or body again.
C17_Writes500IffHeadersNotSent ==
  lastError.route # "none"
    => (lastError.wrote500 <=> ~lastError.headersSent)

\* C18: 202 is given only when no transport is available at all: while the
\* registry holds at least one session, a POST /message is forwarded to the
\* transport of a registered session and not answered 202.
C18_Accepted202OnlyWhenRegistryEmpty ==
  (variant = "fallback" /\ PostAnswered /\ transports # {})
    => /\ lastReq.status # 202
       /\ \E e \in transports : e.transport = lastReq.target

\* C19: a session's registration and its marking as most recent happen in one
\* step, and so do its removal and the clearing of the marker: no step leaves
\* the marker on the transport of a session it has not registered or has
\* removed.
C19_RegistryAndMarkerChangeTogether ==
  [][ variant = "fallback"
        => \A c \in Conns :
             /\ (~Registered(c) /\ Registered(c)') => currentTransport' = c
             /\ (currentTransport # c /\ currentTransport' = c)
                  => Registered(c)'
             /\ (Registered(c) /\ ~Registered(c)') => currentTransport' # c
    ]_vars

\* C20: in every reachable state of the fallback variant, currentTransport is
\* null or the transport of a session that is in the registry.
C20_MarkerIsNullOrRegistered ==
  variant = "fallback"
    => (currentTransport = NoTransport \/ Registered(currentTransport))

\* ------------------------------------- the claims on liveness of targets
\* the transport's server.connect has resolved and its connection is open
Live(c) == pc[c] = "open" /\ ~connClosed[c]

\* C21: the router forwards a posted message only to a live transport:
\* handlePostMessage is never invoked on a transport that is still
\* connecting, failed to connect, or belongs to a closed connection.
C21_ForwardsOnlyToLiveTransport ==
  (PostAnswered /\ lastReq.target # NoTransport) => Live(lastReq.target)

\* C22: each Server instance is connected to at most one transport: no two
\* sessions whose connect has completed were connected to the same Server.
C22_OneTransportPerServer ==
  \A c, d \in Conns :
    (c # d /\ pc[c] = "open" /\ pc[d] = "open") => serverOf[c] # serverOf[d]

====
